---- MODULE Spec2Model ----
(***************************************************************************)
(* Model of the multi-module workspace Makefile of gocraft-modules:        *)
(* module discovery, the per-module task recipes (both recipe styles that  *)
(* the sources carry: per-module subshells and in-place cd), the           *)
(* makerelative/unmakerelative toggler, module-create and the release tool *)
(* wrappers.                                                               *)
(*                                                                         *)
(* Text is modelled at character level: a string is a sequence of          *)
(* one-character strings, so that sed, tr, dirname, sort and the shell's   *)
(* word splitting are computed the way the tools compute them.             *)
(***************************************************************************)
EXTENDS Integers, Sequences, FiniteSets, TLC

VARIABLES
    tree,          \* discovery: the regular files of the workspace (paths relative to the root)
    scannedTree,   \* discovery: the tree as it was when make last evaluated MODULES
    MODULES,       \* the words of the make variable MODULES
    variant,       \* task run: "subshell" (( cd m && cmd )) or "inline" (cd m && cmd) recipes
    target,        \* task run: the make target
    selector,      \* task run: the value of MODULE on the command line, <<>> when not given
    dirs,          \* task run: the directories that exist, relative to the workspace root
    failing,       \* task run: the <<directory, command>> pairs whose command exits non-zero
    lintPresent,   \* task run: golangci-lint is on the PATH
    installOK,     \* task run: go install of golangci-lint would succeed
    installs,      \* task run: how many times the install was attempted
    pc,            \* task run: "ready", "single", "loop" or "done"
    idx,           \* task run: index in MODULES of the next loop iteration
    cwd,           \* task run: the recipe shell's working directory
    lastSt,        \* task run: $? of the last list the recipe shell executed
    attempts,      \* task run: one record per module the recipe got to
    covRouted,     \* task run: <<module, file>> of every -coverprofile handed to go test
    status,        \* task run: the recipe's exit status once pc = "done"
    cleans,        \* task run: the exit status of each make clean run after the task
    manifest,      \* toggler: each module's go.mod, as lines and whether the last line ends in a newline
    preEnable,     \* toggler: the manifests as they were before the last makerelative
    before,        \* toggler: the manifests as they were when the last unmakerelative started
    phase,         \* toggler: "fresh", "enabled" (makerelative ran last) or "roundtrip"/"disabled"
    tpc,           \* toggler: "idle", "loop" or "done" (position of the unmakerelative recipe)
    tidx,          \* toggler: index in MODULES of the next loop iteration
    outcomes,      \* toggler: per module the loop got to, "ok", "awkfail" or "mvfail"
    tstatus,       \* toggler: exit status of the last recipe
    tops,          \* toggler: recipes run so far
    modman,        \* release: the lines of modman.toml
    registered,    \* release: the paths whose module-create ended with status zero
    last,          \* release: what the last command was given, did and returned
    rops           \* release: module-create commands run so far

wsVars  == <<tree, scannedTree, MODULES>>
runVars == <<variant, target, selector, dirs, failing, lintPresent, installOK, installs,
             pc, idx, cwd, lastSt, attempts, covRouted, status, cleans>>
tglVars == <<manifest, preEnable, before, phase, tpc, tidx, outcomes, tstatus, tops>>
relVars == <<modman, registered, last, rops>>
vars    == <<wsVars, runVars, tglVars, relVars>>

----------------------------------------------------------------------------
(* Each specification below exercises one part of the Makefile; the state   *)
(* of the other parts stays as given here.                                  *)

WsIdle == tree = {} /\ scannedTree = {} /\ MODULES = <<>>

RunIdle ==
    /\ variant = "subshell" /\ target = "deps" /\ selector = <<>>
    /\ dirs = {<<>>} /\ failing = {} /\ lintPresent = TRUE /\ installOK = TRUE
    /\ installs = 0 /\ pc = "ready" /\ idx = 1 /\ cwd = <<>> /\ lastSt = 0
    /\ attempts = <<>> /\ covRouted = <<>> /\ status = 0 /\ cleans = <<>>

TglIdle ==
    /\ manifest = <<>> /\ preEnable = <<>> /\ before = <<>> /\ phase = "fresh"
    /\ tpc = "idle" /\ tidx = 1 /\ outcomes = <<>> /\ tstatus = 0 /\ tops = 0

RelIdle == modman = <<>> /\ registered = {} /\ rops = 0 /\ last = <<>>

----------------------------------------------------------------------------
(* Characters and strings *)

\* The characters used in paths, in ASCII (byte) order.
Alphabet ==
    <<" ", "+", "-", ".", "/", "_",
      "a", "b", "c", "d", "e", "g", "h", "i", "l", "m", "n", "o", "p",
      "r", "s", "t", "v", "x", "z">>

Rank(c) == CHOOSE i \in 1..Len(Alphabet) : Alphabet[i] = c

Min(a, b) == IF a <= b THEN a ELSE b

\* Byte-wise comparison of two strings, as sort(1) does in the C locale.
LexLE(s, t) ==
    \E k \in 0..Min(Len(s), Len(t)) :
        /\ \A i \in 1..k : s[i] = t[i]
        /\ \/ k = Len(s)
           \/ /\ k < Len(t)
              /\ Rank(s[k + 1]) < Rank(t[k + 1])

Drop(s, n) == SubSeq(s, n + 1, Len(s))

\* The position of the last "/" of s, 0 when there is none.
LastSlash(s) ==
    IF \E i \in 1..Len(s) : s[i] = "/"
    THEN CHOOSE i \in 1..Len(s) : s[i] = "/" /\ \A j \in (i + 1)..Len(s) : s[j] # "/"
    ELSE 0

Basename(s) == Drop(s, LastSlash(s))

\* dirname(1) of a path that has no trailing slash.
Dirname(s) ==
    IF LastSlash(s) = 0 THEN <<".">>
    ELSE IF LastSlash(s) = 1 THEN <<"/">>
    ELSE SubSeq(s, 1, LastSlash(s) - 1)

GoModName == <<"g", "o", ".", "m", "o", "d">>

----------------------------------------------------------------------------
(* Module discovery:                                                       *)
(*   find . -type f -name go.mod -not -path './go.mod' -exec dirname {} \; *)
(*     | sed 's|^./||' | sort -u                                           *)

\* find prints every regular file named go.mod as ./<path>, except ./go.mod.
FindGoMod(files) ==
    { <<".", "/">> \o f : f \in { g \in files : Basename(g) = GoModName /\ g # GoModName } }

\* sed 's|^./||': the dot of the pattern matches any character.
SedStrip(s) == IF Len(s) >= 2 /\ s[2] = "/" THEN Drop(s, 2) ELSE s

\* sort -u: the distinct lines in byte order.
RECURSIVE SortU(_)
SortU(S) ==
    IF S = {} THEN <<>>
    ELSE LET m == CHOOSE x \in S : \A y \in S : LexLE(x, y)
         IN  <<m>> \o SortU(S \ {m})

\* The words of one line, split at blanks, as make and the shell split $(MODULES).
RECURSIVE SplitWords(_, _)
SplitWords(s, cur) ==
    IF s = <<>> THEN (IF cur = <<>> THEN <<>> ELSE <<cur>>)
    ELSE IF s[1] = " "
         THEN (IF cur = <<>> THEN <<>> ELSE <<cur>>) \o SplitWords(Tail(s), <<>>)
         ELSE SplitWords(Tail(s), Append(cur, s[1]))

RECURSIVE WordsOf(_)
WordsOf(lines) ==
    IF lines = <<>> THEN <<>>
    ELSE SplitWords(lines[1], <<>>) \o WordsOf(Tail(lines))

\* MODULES := $(shell find ... | sed ... | sort -u), used as a list of words.
Discover(files) ==
    WordsOf(SortU({ SedStrip(Dirname(p)) : p \in FindGoMod(files) }))

----------------------------------------------------------------------------
(* The discovery specification: a workspace whose marker files come and go, *)
(* and make invocations that evaluate MODULES afresh.                       *)

RootGoMod   == GoModName
File_a      == <<"a", "/">> \o GoModName
File_b      == <<"b", "/">> \o GoModName
File_a_b    == <<"a", "/", "b", "/">> \o GoModName
File_aub    == <<"a", "_", "b", "/">> \o GoModName
File_asb    == <<"a", " ", "b", "/">> \o GoModName
File_a_sum  == <<"a", "/", "g", "o", ".", "s", "u", "m">>

\* The files a modelled workspace may hold.
CandidateFiles == {RootGoMod, File_a, File_b, File_a_b, File_aub, File_asb, File_a_sum}

Dir_db_gorm     == <<"d", "b", "/", "g", "o", "r", "m">>
Dir_grpc_client == <<"g", "r", "p", "c", "/", "c", "l", "i", "e", "n", "t">>
Dir_grpc_server == <<"g", "r", "p", "c", "/", "s", "e", "r", "v", "e", "r">>
Dir_http_chi    == <<"h", "t", "t", "p", "/", "c", "h", "i">>
Dir_http_gin    == <<"h", "t", "t", "p", "/", "g", "i", "n">>

\* The repository's own layout (README, Modules).
RepoFiles ==
    { d \o <<"/">> \o GoModName :
        d \in {Dir_http_gin, Dir_http_chi, Dir_grpc_client, Dir_grpc_server, Dir_db_gorm} }

DiscInit ==
    /\ tree \in (SUBSET CandidateFiles) \cup {RepoFiles, RepoFiles \cup {RootGoMod}}
    /\ scannedTree = tree
    /\ MODULES = Discover(tree)
    /\ RunIdle /\ TglIdle /\ RelIdle

\* A file appears in the workspace (one change between two make invocations).
CreateFile ==
    /\ scannedTree = tree
    /\ \E f \in CandidateFiles \ tree : tree' = tree \cup {f}
    /\ UNCHANGED <<scannedTree, MODULES>>
    /\ UNCHANGED <<runVars, tglVars, relVars>>

\* A file disappears from the workspace (one change between two make invocations).
RemoveFile ==
    /\ scannedTree = tree
    /\ \E f \in tree \cap CandidateFiles : tree' = tree \ {f}
    /\ UNCHANGED <<scannedTree, MODULES>>
    /\ UNCHANGED <<runVars, tglVars, relVars>>

\* make is invoked: the := assignment of MODULES runs the find pipeline.
MakeModules ==
    /\ scannedTree # tree
    /\ scannedTree' = tree
    /\ MODULES' = Discover(tree)
    /\ UNCHANGED tree
    /\ UNCHANGED <<runVars, tglVars, relVars>>

DiscNext == CreateFile \/ RemoveFile \/ MakeModules

SpecDiscovery == DiscInit /\ [][DiscNext]_vars

\* What the claim describes: the directories that hold a go.mod, the root excluded.
MarkerDirs(files) ==
    { SubSeq(f, 1, Len(f) - Len(GoModName) - 1) :
        f \in { g \in files : Basename(g) = GoModName /\ g # GoModName } }

IsSortedNoDup(q) == \A i \in 1..(Len(q) - 1) : LexLE(q[i], q[i + 1]) /\ q[i] # q[i + 1]

Range(q) == { q[i] : i \in 1..Len(q) }

\* C4: discovery returns exactly the directories that contain a go.mod, the root
\* never among them, without duplicates and in byte-wise lexicographic order; on
\* the repository's five modules it returns db/gorm, grpc/client, grpc/server,
\* http/chi, http/gin in that order.
C4_DiscoveryExactSorted ==
    /\ Range(MODULES) = MarkerDirs(scannedTree)
    /\ IsSortedNoDup(MODULES)
    /\ <<>> \notin Range(MODULES)
    /\ (scannedTree \in {RepoFiles, RepoFiles \cup {RootGoMod}} =>
            MODULES = <<Dir_db_gorm, Dir_grpc_client, Dir_grpc_server, Dir_http_chi, Dir_http_gin>>)

\* The part of C4 that the find pipeline does deliver: when no marker directory
\* has a blank in its path, the list is exact, duplicate-free and sorted.
C4_ExactWithoutBlanks ==
    (\A d \in MarkerDirs(scannedTree) : \A i \in 1..Len(d) : d[i] # " ") =>
        C4_DiscoveryExactSorted

----------------------------------------------------------------------------
(* The per-module task recipes: deps, verify, build, test, test-coverage,  *)
(* lint.  Two recipe styles are in the sources: "subshell" wraps every     *)
(* module's commands in ( cd "$m" && ... ); "inline" runs cd "$m" && ...   *)
(* in the recipe shell itself.  Both run under set -e.                     *)

Root == <<>>

Resolve(base, rel) == IF base = Root THEN rel ELSE base \o <<"/">> \o rel

ParentDir(d) == IF LastSlash(d) = 0 THEN Root ELSE SubSeq(d, 1, LastSlash(d) - 1)

\* COVER_DIR=coverage and BUILD_DIR=build
COVER_DIR == <<"c", "o", "v", "e", "r", "a", "g", "e">>
BUILD_DIR == <<"b", "u", "i", "l", "d">>

\* tr '/' '_'
Tr(s) == [i \in 1..Len(s) |-> IF s[i] = "/" THEN "_" ELSE s[i]]

DotOut == <<".", "o", "u", "t">>

\* The commands of one module's && list, after the cd.
Steps(t) ==
    CASE t = "deps"          -> <<"download", "tidy">>
      [] t = "verify"        -> <<"verify">>
      [] t = "build"         -> <<"build">>
      [] t = "test"          -> <<"test">>
      [] t = "test-coverage" -> <<"cover">>
      [] t = "lint"          -> <<"lint">>

\* The -coverprofile argument, resolved: "$COVER_ABS/<name>.out" with
\* COVER_ABS=$(CURDIR)/coverage in the subshell recipe, "../coverage/<name>.out"
\* relative to the module directory in the inline recipe.
CoverFile(v, m, dir) ==
    IF v = "subshell"
    THEN Resolve(COVER_DIR, Tr(m) \o DotOut)
    ELSE Resolve(Resolve(ParentDir(dir), COVER_DIR), Tr(m) \o DotOut)

\* Whether a command of the list exits non-zero in directory dir: the tool
\* itself fails there, or go test cannot create its coverage profile.
StepFails(v, step, m, dir, ds, fl) ==
    \/ <<dir, step>> \in fl
    \/ step = "cover" /\ ParentDir(CoverFile(v, m, dir)) \notin ds

\* The index of the first command of the list that fails, 0 when none does.
FirstFailure(v, t, m, dir, ds, fl) ==
    LET bad == { i \in 1..Len(Steps(t)) : StepFails(v, Steps(t)[i], m, dir, ds, fl) }
    IN  IF bad = {} THEN 0 ELSE CHOOSE i \in bad : \A j \in bad : i <= j

\* set -e: the shell exits on a failing list, except that a failure of a command
\* of an && list other than its last is ignored.  A subshell is a command of its
\* own, so its failure always counts.
ErrExit_never(v, t, entered, failedAt) == FALSE
ErrExit(v, t, entered, failedAt) ==
    IF v = "subshell"
    THEN ~entered \/ failedAt # 0
    ELSE entered /\ failedAt = Len(Steps(t))

\* One module's part of a recipe, for every target but lint:
\*   ( cd "$m" && cmd ... )      or      cd "$m" && cmd ...
ExecModule(v, t, m, cw, ds, fl) ==
    LET from    == IF v = "subshell" THEN Root ELSE cw
        dir     == Resolve(from, m)
        entered == dir \in ds
        failed  == IF entered THEN FirstFailure(v, t, m, dir, ds, fl) ELSE 0
        st      == IF entered /\ failed = 0 THEN 0 ELSE 1
    IN  [m        |-> m,
         entered  |-> entered,
         dir      |-> IF entered THEN dir ELSE from,
         failedAt |-> failed,
         st       |-> st,
         exits    |-> ErrExit(v, t, entered, failed),
         cwd      |-> IF v = "inline" /\ entered THEN dir ELSE cw,
         cov      |-> IF t = "test-coverage" /\ entered
                      THEN <<<<m, CoverFile(v, m, dir)>>>> ELSE <<>>]

\* One module's part of the lint recipe: golangci-lint run ... ./$m/... from
\* the workspace root; 127 when the tool is not found, and a failure when the
\* path is no directory or the linter reports issues.
ExecLint_noerrexit(m, cw, ds, tool, fl) ==
    LET st == IF ~tool THEN 127
              ELSE IF Resolve(cw, m) \notin ds \/ <<m, "lint">> \in fl THEN 1 ELSE 0
    IN  [m        |-> m,
         entered  |-> TRUE,
         dir      |-> cw,
         failedAt |-> IF st = 0 THEN 0 ELSE 1,
         st       |-> st,
         exits    |-> FALSE,
         cwd      |-> cw,
         cov      |-> <<>>]
ExecLint(m, cw, ds, tool, fl) ==
    LET st == IF ~tool THEN 127
              ELSE IF Resolve(cw, m) \notin ds \/ <<m, "lint">> \in fl THEN 1 ELSE 0
    IN  [m        |-> m,
         entered  |-> TRUE,
         dir      |-> cw,
         failedAt |-> IF st = 0 THEN 0 ELSE 1,
         st       |-> st,
         exits    |-> st # 0,
         cwd      |-> cw,
         cov      |-> <<>>]

Exec(v, t, m, cw, ds, fl, tool) ==
    IF t = "lint" THEN ExecLint(m, cw, ds, tool, fl) ELSE ExecModule(v, t, m, cw, ds, fl)

----------------------------------------------------------------------------
(* The task-run specification: one make invocation of a task target in a   *)
(* workspace drawn from a family of layouts, with the tools' failures drawn *)
(* from the directories they may run in.                                    *)

D_a   == <<"a">>
D_b   == <<"b">>
D_c   == <<"c">>
D_ab  == <<"a", "/", "b">>
D_aub == <<"a", "_", "b">>
D_ac  == <<"a", "/", "c">>
D_z   == <<"z">>
D_acov == <<"a", "/">> \o COVER_DIR

\* Module directories (each holds a go.mod) and further plain directories.
Layouts ==
    { [mods |-> {},               extra |-> {}],
      [mods |-> {D_a},            extra |-> {}],
      [mods |-> {D_a, D_b},       extra |-> {}],
      [mods |-> {D_a, D_b, D_c},  extra |-> {}],
      [mods |-> {D_a, D_b, D_c},  extra |-> {D_ac}],
      [mods |-> {D_ab, D_aub},    extra |-> {}],
      [mods |-> {D_a, D_ab},      extra |-> {}],
      [mods |-> {D_ab},           extra |-> {D_acov}] }

\* The most <<directory, command>> pairs that fail in one run.
MaxFailing == 2

Targets == {"deps", "verify", "build", "test", "test-coverage", "lint"}

\* deps and verify take no MODULE selector.
Selectors(t) == IF t \in {"deps", "verify"} THEN {<<>>} ELSE {<<>>, D_a, D_ac, D_z}

\* A directory and the directories above it.
Ancestors(d) == {d} \cup { SubSeq(d, 1, i - 1) : i \in { j \in 1..Len(d) : d[j] = "/" } }

LayoutDirs(l) == {Root} \cup UNION { Ancestors(d) : d \in l.mods \cup l.extra }

LayoutFiles(l) == { d \o <<"/">> \o GoModName : d \in l.mods }

\* Where a command of target t can be made to fail: a directory it may run in
\* (lint runs from the root and is keyed by the module path it is given).
FailPairs(l, t, sel) ==
    IF t = "lint"
    THEN { <<m, "lint">> : m \in l.mods \cup ({sel} \ {<<>>}) }
    ELSE { <<d, Steps(t)[i]>> : d \in LayoutDirs(l) \ {Root}, i \in 1..Len(Steps(t)) }

TaskInit ==
    /\ \E l \in Layouts :
        /\ tree = LayoutFiles(l)
        /\ dirs = LayoutDirs(l)
        /\ target \in Targets
        /\ selector \in Selectors(target)
        /\ failing \in { F \in SUBSET FailPairs(l, target, selector) : Cardinality(F) <= MaxFailing }
    /\ scannedTree = tree
    /\ MODULES = Discover(tree)
    /\ variant \in {"subshell", "inline"}
    /\ lintPresent \in (IF target = "lint" THEN BOOLEAN ELSE {TRUE})
    /\ installOK \in (IF target = "lint" /\ ~lintPresent THEN BOOLEAN ELSE {TRUE})
    /\ installs = 0
    /\ pc = "ready"
    /\ idx = 1
    /\ cwd = Root
    /\ lastSt = 0
    /\ attempts = <<>>
    /\ covRouted = <<>>
    /\ status = 0
    /\ cleans = <<>>
    /\ TglIdle /\ RelIdle

envVars == <<wsVars, variant, target, selector, failing, installOK>>

\* What a recipe does before it looks at MODULE: mkdir -p of the output
\* directory (build, test-coverage), or the lint tool's install when which(1)
\* does not find it.
Start ==
    /\ pc = "ready"
    /\ dirs' = dirs \cup (CASE target = "build"         -> {BUILD_DIR}
                            [] target = "test-coverage" -> {COVER_DIR}
                            [] OTHER                    -> {})
    /\ IF target = "lint" /\ ~lintPresent
       THEN installs' = installs + 1 /\ lintPresent' = installOK
       ELSE UNCHANGED <<installs, lintPresent>>
    /\ pc' = IF selector # <<>> THEN "single" ELSE "loop"
    /\ UNCHANGED <<envVars, idx, cwd, lastSt, attempts, covRouted, status, cleans>>
    /\ UNCHANGED <<tglVars, relVars>>

Attempt(r) == [m |-> r.m, entered |-> r.entered, dir |-> r.dir, failedAt |-> r.failedAt, st |-> r.st]

\* A recipe that would look the selector up in MODULES first and refuse a path
\* that is not there; the recipes in the Makefile have no such test.
RunSingle_Validating ==
    /\ pc = "single"
    /\ IF selector \in Range(MODULES)
       THEN LET r == Exec(variant, target, selector, cwd, dirs, failing, lintPresent)
            IN  /\ attempts' = Append(attempts, Attempt(r))
                /\ covRouted' = covRouted \o r.cov
                /\ cwd' = r.cwd
                /\ lastSt' = r.st
                /\ status' = r.st
       ELSE /\ status' = 1
            /\ lastSt' = 1
            /\ UNCHANGED <<attempts, covRouted, cwd>>
    /\ pc' = "done"
    /\ UNCHANGED <<envVars, dirs, lintPresent, installs, idx, cleans>>
    /\ UNCHANGED <<tglVars, relVars>>
\* if [ -n "$(MODULE)" ]: the task runs for the selector alone.
RunSingle ==
    /\ pc = "single"
    /\ LET r == Exec(variant, target, selector, cwd, dirs, failing, lintPresent)
       IN  /\ attempts' = Append(attempts, Attempt(r))
           /\ covRouted' = covRouted \o r.cov
           /\ cwd' = r.cwd
           /\ lastSt' = r.st
           /\ status' = r.st
    /\ pc' = "done"
    /\ UNCHANGED <<envVars, dirs, lintPresent, installs, idx, cleans>>
    /\ UNCHANGED <<tglVars, relVars>>

\* One iteration of for m in $(MODULES).
LoopStep ==
    /\ pc = "loop"
    /\ idx <= Len(MODULES)
    /\ LET r == Exec(variant, target, MODULES[idx], cwd, dirs, failing, lintPresent)
       IN  /\ attempts' = Append(attempts, Attempt(r))
           /\ covRouted' = covRouted \o r.cov
           /\ cwd' = r.cwd
           /\ lastSt' = r.st
           /\ IF r.exits
              THEN pc' = "done" /\ status' = r.st /\ UNCHANGED idx
              ELSE idx' = idx + 1 /\ UNCHANGED <<pc, status>>
    /\ UNCHANGED <<envVars, dirs, lintPresent, installs, cleans>>
    /\ UNCHANGED <<tglVars, relVars>>

\* done: the recipe shell ends with the status of the last list it ran.
LoopEnd ==
    /\ pc = "loop"
    /\ idx > Len(MODULES)
    /\ pc' = "done"
    /\ status' = lastSt
    /\ UNCHANGED <<envVars, dirs, lintPresent, installs, idx, cwd, lastSt, attempts, covRouted,
                   cleans>>
    /\ UNCHANGED <<tglVars, relVars>>

\* The path is top or lies below it.
Under(path, top) ==
    \/ path = top
    \/ Len(path) > Len(top) /\ SubSeq(path, 1, Len(top) + 1) = top \o <<"/">>

\* The operands of clean's rm -rf.
CleanOperands ==
    { BUILD_DIR, COVER_DIR,
      COVER_DIR \o <<".", "o", "u", "t">>,
      COVER_DIR \o <<".", "h", "t", "m", "l">> }

\* rm -rf $(BUILD_DIR) $(COVER_DIR) coverage.out coverage.html || true
RmRf(paths) == { d \in paths : \A top \in CleanOperands : ~Under(d, top) }

\* make clean after the task: go clean, then (make stops at a failing go
\* clean) the rm -rf of the build and coverage directories.  MODULES is what
\* the finished make run had read.
MakeClean ==
    /\ pc = "done"
    /\ cleans = <<>>
    /\ \E goCleanExit \in {0, 1} :
        /\ cleans' = Append(cleans, goCleanExit)
        /\ IF goCleanExit = 0
           THEN dirs' = RmRf(dirs) /\ tree' = RmRf(tree)
           ELSE UNCHANGED <<dirs, tree>>
    /\ UNCHANGED <<scannedTree, MODULES, variant, target, selector, failing, installOK>>
    /\ UNCHANGED <<lintPresent, installs, pc, idx, cwd, lastSt, attempts, covRouted, status>>
    /\ UNCHANGED <<tglVars, relVars>>

TaskNext == Start \/ RunSingle \/ LoopStep \/ LoopEnd \/ MakeClean

Spec == TaskInit /\ [][TaskNext]_vars

----------------------------------------------------------------------------
(* Claims about the task recipes *)

LastCommandFailed(a) == a.entered /\ a.failedAt = Len(Steps(target))

Succeeded(a) == a.entered /\ a.failedAt = 0

\* C1 (as claimed): a workspace-wide run attempts every discovered module even
\* after a module's task failed, so a finished run has attempted all of MODULES.
C1_AllModulesAttempted ==
    (pc = "done" /\ selector = <<>>) =>
        /\ Len(attempts) = Len(MODULES)
        /\ \A i \in 1..Len(MODULES) : attempts[i].m = MODULES[i]

\* C1 (amended): modules are attempted in discovery order, and a module whose
\* task command (the last command of its list) fails is the last one attempted:
\* the run ends there with a non-zero status.
C1_FailureStopsRun ==
    selector = <<>> =>
        \A i \in 1..Len(attempts) :
            /\ attempts[i].m = MODULES[i]
            /\ LastCommandFailed(attempts[i]) =>
                   /\ i = Len(attempts)
                   /\ pc = "done"
                   /\ status # 0

\* C1 witness: a finished workspace-wide run that stopped at a failing module
\* with discovered modules left unattempted.
C1_Witness ==
    /\ pc = "done"
    /\ selector = <<>>
    /\ attempts # <<>>
    /\ Len(attempts) < Len(MODULES)
    /\ LastCommandFailed(attempts[Len(attempts)])
    /\ status # 0

\* C5 (as claimed): a selector that is not a discovered module is rejected
\* before anything runs: the command fails and no task command is executed.
C5_UnknownSelectorRejected ==
    (pc = "done" /\ selector # <<>> /\ selector \notin Range(MODULES)) =>
        /\ status # 0
        /\ \A i \in 1..Len(attempts) : ~attempts[i].entered

\* C5 (amended): the selector is not checked against the discovered modules.
\* The recipe goes to the directory the selector names (lint hands the path to
\* the lint tool) and runs the task there whenever that directory exists; the
\* exit status is zero exactly when that one attempt succeeded.
C5_SelectorRunsUnchecked ==
    (pc = "done" /\ selector # <<>>) =>
        /\ Len(attempts) = 1
        /\ attempts[1].m = selector
        /\ (target # "lint" => (attempts[1].entered <=> selector \in dirs))
        /\ (status = 0 <=> Succeeded(attempts[1]))

\* C5 witness: a selector outside the discovered modules whose task ran, in
\* the directory it names, and succeeded.
C5_Witness ==
    /\ pc = "done"
    /\ selector # <<>>
    /\ selector \notin Range(MODULES)
    /\ Len(attempts) = 1
    /\ attempts[1].entered
    /\ attempts[1].dir = selector
    /\ status = 0

\* C6: every coverage profile goes to <root>/coverage/<module path with "/"
\* replaced by "_">.out, and two distinct modules never get the same file.
C6_CoverageFilesDistinct ==
    /\ \A i \in 1..Len(covRouted) :
           covRouted[i][2] = Resolve(COVER_DIR, Tr(covRouted[i][1]) \o DotOut)
    /\ \A i, j \in 1..Len(covRouted) :
           covRouted[i][1] # covRouted[j][1] => covRouted[i][2] # covRouted[j][2]

\* C10: a task command that ends with status zero succeeded for every module
\* it attempted, the change into the module's directory included.
C10_ZeroOnlyIfAllSucceeded ==
    (pc = "done" /\ status = 0) => \A i \in 1..Len(attempts) : Succeeded(attempts[i])

\* C12: in lint, a missing lint tool leads to one install attempt, made before
\* any module is linted, and with or without that install a lint command that
\* fails in a module makes the whole lint command fail.
C12_LintFailureSurfaces ==
    target = "lint" =>
        /\ installs \in {0, 1}
        /\ pc = "ready" => (installs = 0 /\ attempts = <<>>)
        /\ (pc # "ready" /\ ~lintPresent) => installs = 1
        /\ \A i \in 1..Len(attempts) :
               attempts[i].st # 0 => (pc = "done" /\ status # 0)

\* C12 witness: the lint tool was missing and got installed, the first module
\* linted clean, the second did not, and the lint command failed.
C12_Witness ==
    /\ target = "lint"
    /\ selector = <<>>
    /\ installs = 1
    /\ lintPresent
    /\ pc = "done"
    /\ Len(attempts) = 2
    /\ attempts[1].st = 0
    /\ attempts[2].st = 1
    /\ status # 0

\* C14: in a workspace-wide run of deps, verify, build, test or test-coverage
\* the commands of the k-th module run in <workspace root>/<its path>, whatever
\* modules came before it.
C14_WorkingDirIsModuleDir ==
    (selector = <<>> /\ target # "lint") =>
        \A i \in 1..Len(attempts) :
            attempts[i].entered => attempts[i].dir = Resolve(Root, attempts[i].m)

----------------------------------------------------------------------------
(* The relative-linking toggler: makerelative (an external tool) and the    *)
(* unmakerelative recipe, which filters every module's go.mod through awk.  *)
(* A file is the sequence of its lines and whether its last line ends in a  *)
(* newline (an empty file has no lines).                                    *)

MARK_BEGIN == "# BEGIN makerelative (auto-generated)"
MARK_END   == "# END makerelative (auto-generated)"

\* awk -v b=... -v e=... 'BEGIN{skip=0} { if($0==b){skip=1; next}
\*                        if($0==e){skip=0; next} if(!skip) print $0 }'
RECURSIVE AwkFilter_noreset(_, _)
AwkFilter_noreset(lines, skip) ==
    IF lines = <<>> THEN <<>>
    ELSE IF Head(lines) = MARK_BEGIN THEN AwkFilter_noreset(Tail(lines), TRUE)
    ELSE IF Head(lines) = MARK_END THEN AwkFilter_noreset(Tail(lines), skip)
    ELSE IF ~skip THEN <<Head(lines)>> \o AwkFilter_noreset(Tail(lines), skip)
    ELSE AwkFilter_noreset(Tail(lines), skip)

RECURSIVE AwkFilter_printend(_, _)
AwkFilter_printend(lines, skip) ==
    IF lines = <<>> THEN <<>>
    ELSE IF Head(lines) = MARK_BEGIN THEN AwkFilter_printend(Tail(lines), TRUE)
    ELSE IF Head(lines) = MARK_END THEN <<Head(lines)>> \o AwkFilter_printend(Tail(lines), FALSE)
    ELSE IF ~skip THEN <<Head(lines)>> \o AwkFilter_printend(Tail(lines), skip)
    ELSE AwkFilter_printend(Tail(lines), skip)

\* A filter that knows the end marker only inside a block.
RECURSIVE AwkFilter_endinblock(_, _)
AwkFilter_endinblock(lines, skip) ==
    IF lines = <<>> THEN <<>>
    ELSE IF Head(lines) = MARK_BEGIN THEN AwkFilter_endinblock(Tail(lines), TRUE)
    ELSE IF Head(lines) = MARK_END /\ skip THEN AwkFilter_endinblock(Tail(lines), FALSE)
    ELSE IF ~skip THEN <<Head(lines)>> \o AwkFilter_endinblock(Tail(lines), skip)
    ELSE AwkFilter_endinblock(Tail(lines), skip)

RECURSIVE AwkFilter(_, _)
AwkFilter(lines, skip) ==
    IF lines = <<>> THEN <<>>
    ELSE IF Head(lines) = MARK_BEGIN THEN AwkFilter(Tail(lines), TRUE)
    ELSE IF Head(lines) = MARK_END THEN AwkFilter(Tail(lines), FALSE)
    ELSE IF ~skip THEN <<Head(lines)>> \o AwkFilter(Tail(lines), skip)
    ELSE AwkFilter(Tail(lines), skip)

\* Marker lines that do not form a series of begin..end blocks: a begin marker
\* inside an open block, an end marker outside one, or a block left open.
RECURSIVE Unbalanced(_, _)
Unbalanced(lines, open) ==
    IF lines = <<>> THEN open
    ELSE IF Head(lines) = MARK_BEGIN THEN open \/ Unbalanced(Tail(lines), TRUE)
    ELSE IF Head(lines) = MARK_END THEN ~open \/ Unbalanced(Tail(lines), FALSE)
    ELSE Unbalanced(Tail(lines), open)

Malformed(f) == Unbalanced(f.lines, FALSE)

\* A rewrite that would first look at the marker lines and keep its hands off
\* a manifest whose markers are malformed; the recipe has no such test.
Unmake_checked(file) ==
    IF Malformed(file)
    THEN file
    ELSE LET out == AwkFilter(file.lines, FALSE)
         IN  [lines |-> out, nl |-> out # <<>>]

\* awk ... "$gomod" > "$gomod.tmp"; mv "$gomod.tmp" "$gomod": print ends every
\* line it writes with a newline.
Unmake(file) ==
    LET out == AwkFilter(file.lines, FALSE)
    IN  [lines |-> out, nl |-> out # <<>>]

\* makerelative, as the specification describes it: one block, delimited by the
\* two marker lines and holding one override per dependency, is inserted at a
\* line boundary; a manifest that already has the block is left as it is.
EnableFile(file, k, overrides) ==
    IF \E i \in 1..Len(file.lines) : file.lines[i] = MARK_BEGIN
    THEN file
    ELSE LET pos == Min(k, Len(file.lines))
         IN  [lines |-> SubSeq(file.lines, 1, pos) \o <<MARK_BEGIN>> \o overrides
                          \o <<MARK_END>> \o Drop(file.lines, pos),
              nl    |-> IF pos = Len(file.lines) THEN TRUE ELSE file.nl]

----------------------------------------------------------------------------
(* The toggler specification *)

\* The longest manifest, in lines, a run starts from.
MaxLines == 3

\* The most recipes (makerelative, unmakerelative) in one behaviour.
MaxOps == 2

ManifestLines ==
    {MARK_BEGIN, MARK_END, "module example.com/a", "  # BEGIN makerelative (auto-generated)"}

RECURSIVE SeqsUpTo(_, _)
SeqsUpTo(S, n) ==
    IF n = 0 THEN {<<>>}
    ELSE LET shorter == SeqsUpTo(S, n - 1)
         IN  shorter \cup { Append(q, x) : q \in { r \in shorter : Len(r) = n - 1 }, x \in S }

Files(n) ==
    { [lines |-> q, nl |-> b] : q \in SeqsUpTo(ManifestLines, n), b \in BOOLEAN } \
        { [lines |-> <<>>, nl |-> TRUE] }

\* The manifests of a two-module workspace: the first plain or lacking its
\* final newline, the second with a well-formed block.
PlainFiles ==
    { [lines |-> <<"module example.com/a">>, nl |-> TRUE],
      [lines |-> <<"module example.com/a">>, nl |-> FALSE] }

BlockFile ==
    [lines |-> <<"module example.com/b", MARK_BEGIN, "replace example.com/a => ../a", MARK_END>>,
     nl    |-> TRUE]

OverrideChoices == {<<>>, <<"replace example.com/b => ../b">>}

TogInit ==
    /\ \/ /\ tree = {File_a}
          /\ manifest \in [{D_a} -> Files(MaxLines)]
       \/ /\ tree = {File_a, File_b}
          /\ \E f \in PlainFiles : manifest = [m \in {D_a, D_b} |-> IF m = D_a THEN f ELSE BlockFile]
    /\ scannedTree = tree
    /\ MODULES = Discover(tree)
    /\ preEnable = manifest
    /\ before = manifest
    /\ phase = "fresh"
    /\ tpc = "idle"
    /\ tidx = 1
    /\ outcomes = <<>>
    /\ tstatus = 0
    /\ tops = 0
    /\ RunIdle /\ RelIdle


\* make makerelative with the tool installed and succeeding.
Enable ==
    /\ tpc = "idle"
    /\ tops < MaxOps
    /\ \E k \in 0..MaxLines, ov \in OverrideChoices :
          manifest' = [m \in DOMAIN manifest |-> EnableFile(manifest[m], k, ov)]
    /\ preEnable' = manifest
    /\ phase' = "enabled"
    /\ tstatus' = 0
    /\ tops' = tops + 1
    /\ UNCHANGED <<wsVars, before, tpc, tidx, outcomes>>
    /\ UNCHANGED <<runVars, relVars>>

\* make unmakerelative starts: set -e, the markers, the loop head.
StartDisable ==
    /\ tpc = "idle"
    /\ tops < MaxOps
    /\ tpc' = "loop"
    /\ tidx' = 1
    /\ outcomes' = <<>>
    /\ before' = manifest
    /\ tops' = tops + 1
    /\ UNCHANGED <<wsVars, manifest, preEnable, phase, tstatus>>
    /\ UNCHANGED <<runVars, relVars>>

\* A loop that would note a failing awk or mv and go on with the next module;
\* the recipe runs under set -e and has no such handling.
DisableStep_continue ==
    /\ tpc = "loop"
    /\ tidx <= Len(MODULES)
    /\ \E o \in {"ok", "awkfail", "mvfail"} :
        /\ outcomes' = Append(outcomes, o)
        /\ manifest' = IF o = "ok"
                       THEN [manifest EXCEPT ![MODULES[tidx]] = Unmake(@)]
                       ELSE manifest
        /\ tidx' = tidx + 1
        /\ UNCHANGED <<tpc, tstatus, phase>>
    /\ UNCHANGED <<wsVars, preEnable, before, tops>>
    /\ UNCHANGED <<runVars, relVars>>

\* One iteration: awk into go.mod.tmp, then mv over go.mod.  Under set -e a
\* failing awk (or redirection) or a failing mv ends the recipe; go.mod is
\* replaced only by a successful mv.
DisableStep ==
    /\ tpc = "loop"
    /\ tidx <= Len(MODULES)
    /\ \E o \in {"ok", "awkfail", "mvfail"} :
        /\ outcomes' = Append(outcomes, o)
        /\ IF o = "ok"
           THEN /\ manifest' = [manifest EXCEPT ![MODULES[tidx]] = Unmake(@)]
                /\ tidx' = tidx + 1
                /\ UNCHANGED <<tpc, tstatus, phase>>
           ELSE /\ tpc' = "done"
                /\ tstatus' = IF o = "awkfail" THEN 2 ELSE 1
                /\ phase' = "disabled"
                /\ UNCHANGED <<manifest, tidx>>
    /\ UNCHANGED <<wsVars, preEnable, before, tops>>
    /\ UNCHANGED <<runVars, relVars>>

\* done: every module was filtered.
DisableEnd ==
    /\ tpc = "loop"
    /\ tidx > Len(MODULES)
    /\ tpc' = "done"
    /\ tstatus' = 0
    /\ phase' = IF phase = "enabled" THEN "roundtrip" ELSE "disabled"
    /\ UNCHANGED <<wsVars, manifest, preEnable, before, tidx, outcomes, tops>>
    /\ UNCHANGED <<runVars, relVars>>

\* The operator goes on to the next command.
NextCommand ==
    /\ tpc = "done"
    /\ tops < MaxOps
    /\ tpc' = "idle"
    /\ UNCHANGED <<wsVars, manifest, preEnable, before, phase, tidx, outcomes, tstatus, tops>>
    /\ UNCHANGED <<runVars, relVars>>

TogNext == Enable \/ StartDisable \/ DisableStep \/ DisableEnd \/ NextCommand

SpecToggle == TogInit /\ [][TogNext]_vars

----------------------------------------------------------------------------
(* Claims about the toggler *)

IsMarker(l) == l \in {MARK_BEGIN, MARK_END}

HasMarker(f) == \E i \in 1..Len(f.lines) : IsMarker(f.lines[i])

\* The lines of q at the indices in K, in order.
RECURSIVE Pick(_, _, _)
Pick(q, K, i) ==
    IF i > Len(q) THEN <<>>
    ELSE (IF i \in K THEN <<q[i]>> ELSE <<>>) \o Pick(q, K, i + 1)

\* The modules the running (or finished) unmakerelative has rewritten.
Rewritten == { MODULES[i] : i \in 1..(tidx - 1) }

\* C2 (as claimed): makerelative followed at once by unmakerelative gives back
\* every manifest byte for byte, whatever its content.
C2_RoundTripAnyContent == phase = "roundtrip" => manifest = preEnable

\* A manifest made of newline-terminated lines none of which is a marker line.
Clean(f) == ~HasMarker(f) /\ (f.nl \/ f.lines = <<>>)

\* C2 (amended): makerelative followed at once by unmakerelative gives back,
\* byte for byte, every manifest that held no marker line and whose last line
\* ended in a newline.
C2_RoundTripClean ==
    phase = "roundtrip" =>
        \A m \in DOMAIN manifest : Clean(preEnable[m]) => manifest[m] = preEnable[m]

\* C2 witness: a clean, non-empty manifest that received a block and is back
\* to its bytes after the unmakerelative that followed.
C2_Witness ==
    /\ phase = "roundtrip"
    /\ \E m \in DOMAIN manifest :
        /\ Clean(preEnable[m])
        /\ Len(preEnable[m].lines) >= 2
        /\ HasMarker(before[m])
        /\ manifest[m] = preEnable[m]

\* The lines the claim says are removed: those from a begin marker through the
\* first end marker after it.
InBlock(q, i) ==
    \E b \in 1..i, e \in i..Len(q) :
        /\ q[b] = MARK_BEGIN
        /\ q[e] = MARK_END
        /\ \A j \in b..(e - 1) : q[j] # MARK_END

BlockRemoved(f) ==
    LET K   == { i \in 1..Len(f.lines) : ~InBlock(f.lines, i) }
        out == Pick(f.lines, K, 1)
    IN  [lines |-> out,
         nl    |-> IF Len(f.lines) \in K THEN f.nl ELSE out # <<>>]

\* C3 (as claimed): unmakerelative removes exactly the lines from the begin
\* marker through the end marker and leaves every other byte alone; a manifest
\* without marker lines comes out equal to what went in.
C3_RemovesExactlyBlock ==
    tpc \in {"loop", "done"} =>
        \A m \in Rewritten : manifest[m] = BlockRemoved(before[m])

\* The lines awk drops: marker lines, and lines after a begin marker with no
\* end marker in between.
Skipped(q, i) ==
    \/ IsMarker(q[i])
    \/ \E b \in 1..(i - 1) : q[b] = MARK_BEGIN /\ \A j \in (b + 1)..(i - 1) : q[j] # MARK_END

\* C3 (amended): unmakerelative drops every marker line and every line that
\* follows a begin marker with no end marker in between; every other line is
\* kept, in order and unchanged, and each written line ends in a newline.  A
\* manifest without marker lines whose last line ended in a newline comes out
\* equal to what went in, and manifests not yet reached are untouched.
C3_DropsMarkedLines ==
    tpc \in {"loop", "done"} =>
        /\ \A m \in Rewritten :
             LET q   == before[m].lines
                 out == Pick(q, { i \in 1..Len(q) : ~Skipped(q, i) }, 1)
             IN  /\ manifest[m] = [lines |-> out, nl |-> out # <<>>]
                 /\ Clean(before[m]) => manifest[m] = before[m]
        /\ \A m \in DOMAIN manifest \ Rewritten : manifest[m] = before[m]

\* C3 witness: a finished unmakerelative that took a begin..end block out of a
\* manifest and kept a line that followed the block.
C3_Witness ==
    /\ tpc = "done"
    /\ tstatus = 0
    /\ \E m \in Rewritten :
        \E b, e, k \in 1..Len(before[m].lines) :
            /\ b < e /\ e < k
            /\ before[m].lines[b] = MARK_BEGIN
            /\ before[m].lines[e] = MARK_END
            /\ ~IsMarker(before[m].lines[k])
            /\ manifest[m].lines # <<>>
            /\ manifest[m].lines[Len(manifest[m].lines)] = before[m].lines[k]

\* C11 (as claimed): a manifest whose marker lines are malformed is left as it
\* was by unmakerelative, and the recipe reports a failure for that module.
C11_MalformedLeftUntouched ==
    tpc \in {"loop", "done"} =>
        \A i \in 1..Len(outcomes) :
            Malformed(before[MODULES[i]]) =>
                /\ manifest[MODULES[i]] = before[MODULES[i]]
                /\ outcomes[i] # "ok"

\* C11 (amended): unmakerelative does not look for malformed markers.  A
\* manifest with malformed markers that the loop rewrites is edited like any
\* other: it comes out shorter and without a marker line, only the lines
\* before its first marker line are sure to be kept, and nothing is reported
\* for it: a run in which awk and mv succeed throughout ends with status zero.
C11_MalformedRewrittenSilently ==
    tpc \in {"loop", "done"} =>
        \A i \in 1..Len(outcomes) :
            LET m     == MODULES[i]
                q     == before[m].lines
                first == CHOOSE k \in 1..Len(q) :
                             IsMarker(q[k]) /\ \A j \in 1..(k - 1) : ~IsMarker(q[j])
            IN  (Malformed(before[m]) /\ outcomes[i] = "ok") =>
                    /\ manifest[m] # before[m]
                    /\ ~HasMarker(manifest[m])
                    /\ Len(manifest[m].lines) < Len(q)
                    /\ SubSeq(manifest[m].lines, 1, first - 1) = SubSeq(q, 1, first - 1)
                    /\ (tpc = "done" /\ \A j \in 1..Len(outcomes) : outcomes[j] = "ok")
                           => tstatus = 0

\* C11 witness: a finished, successful unmakerelative that met a begin marker
\* with no end marker after it and deleted the line that followed the marker.
C11_Witness ==
    /\ tpc = "done"
    /\ tstatus = 0
    /\ \E m \in Rewritten :
        LET q == before[m].lines
        IN  /\ Malformed(before[m])
            /\ Len(q) = 3
            /\ ~IsMarker(q[1]) /\ q[2] = MARK_BEGIN /\ ~IsMarker(q[3])
            /\ manifest[m].lines = <<q[1]>>

\* C13 (as claimed): a failure to rewrite one module's manifest does not keep
\* unmakerelative from the later modules, so a finished run has got to every
\* discovered module.
C13_LaterModulesProcessed ==
    tpc = "done" => Len(outcomes) = Len(MODULES)

\* C13 (amended): a failing awk or mv ends unmakerelative at that module with a
\* non-zero status; the manifest of that module and of every later module is
\* as it was when the recipe started.
C13_RewriteFailureStopsRun ==
    tpc \in {"loop", "done"} =>
        \A i \in 1..Len(outcomes) :
            outcomes[i] # "ok" =>
                /\ i = Len(outcomes)
                /\ tpc = "done"
                /\ tstatus # 0
                /\ \A j \in i..Len(MODULES) : manifest[MODULES[j]] = before[MODULES[j]]

\* C13 witness: a run over two modules that failed at the first and left the
\* second module's block in place.
C13_Witness ==
    /\ tpc = "done"
    /\ tstatus # 0
    /\ Len(MODULES) = 2
    /\ Len(outcomes) = 1
    /\ outcomes[1] # "ok"
    /\ HasMarker(manifest[MODULES[2]])
    /\ manifest[MODULES[2]] = before[MODULES[2]]

\* C15: whatever the manifest held, what unmakerelative writes has no marker
\* line in it, and a second unmakerelative leaves it exactly as it is.
C15_NoMarkerLeftIdempotent ==
    tpc \in {"loop", "done"} =>
        \A m \in Rewritten :
            /\ ~HasMarker(manifest[m])
            /\ Unmake(manifest[m]) = manifest[m]

\* C15 witness: a manifest with malformed markers that a first unmakerelative
\* changed and a second, finished unmakerelative then left as it found it.
C15_Witness ==
    /\ tpc = "done"
    /\ tstatus = 0
    /\ tops = 2
    /\ phase = "disabled"
    /\ \E m \in Rewritten :
        /\ Malformed(preEnable[m])
        /\ manifest[m] # preEnable[m]
        /\ manifest[m] = before[m]

----------------------------------------------------------------------------
(* module-create: the recipe is five recipe lines (a comment line without a *)
(* trailing backslash ends a line), each run by make in a shell of its own; *)
(* make stops at the first line that returns non-zero.  Shell variables set *)
(* in the first line (MOD_DIR, BASE_MOD) are empty in the later ones.       *)

Quote == "\""

ModPrefix == <<"[", "m", "o", "d", "u", "l", "e", "s", ".", Quote>>

Indent4 == <<" ", " ", " ", " ">>

\* echo "    [modules.\"$(MODULE)\"]"
Header(p) == Indent4 \o ModPrefix \o p \o <<Quote, "]">>

\* echo "        no_tag = false"
NoTagLine ==
    Indent4 \o Indent4 \o <<"n", "o", "_", "t", "a", "g", " ", "=", " ", "f", "a", "l", "s", "e">>

\* echo "        pre_release=\"\""
PreReleaseLine ==
    Indent4 \o Indent4 \o <<"p", "r", "e", "_", "r", "e", "l", "e", "a", "s", "e", "=", Quote, Quote>>

EntryLines(p) == <<Header(p), NoTagLine, PreReleaseLine>>

Lit(c) == [kind |-> "lit", c |-> c, q |-> "1"]

\* $(MODULE) is pasted into the extended regular expression: "." matches any
\* character, "+" repeats the item before it.
RECURSIVE ParseERE(_, _)
ParseERE(chars, toks) ==
    IF chars = <<>> THEN toks
    ELSE LET c == Head(chars)
         IN  IF c = "+" /\ toks # <<>>
             THEN ParseERE(Tail(chars),
                           [toks EXCEPT ![Len(toks)].q = IF @ = "*" THEN "*" ELSE "+"])
             ELSE IF c = "."
             THEN ParseERE(Tail(chars), Append(toks, [kind |-> "any", c |-> c, q |-> "1"]))
             ELSE ParseERE(Tail(chars), Append(toks, Lit(c)))

\* "^[[:space:]]*\[modules\.\"$(MODULE)\"\]"
EntryPattern(p) ==
    <<[kind |-> "space", c |-> " ", q |-> "*"]>>
        \o [i \in 1..(Len(ModPrefix) - 1) |-> Lit(ModPrefix[i])]
        \o ParseERE(<<Quote>> \o p \o <<Quote>>, <<>>)
        \o <<Lit("]")>>

Fits(t, c) ==
    CASE t.kind = "lit"   -> c = t.c
      [] t.kind = "any"   -> TRUE
      [] t.kind = "space" -> c = " "

\* Whether the pattern matches at the start of the line (the pattern begins with ^).
RECURSIVE Matches(_, _)
Matches(toks, line) ==
    IF toks = <<>> THEN TRUE
    ELSE LET t == Head(toks)
         IN  CASE t.q = "1" ->
                    line # <<>> /\ Fits(t, Head(line)) /\ Matches(Tail(toks), Tail(line))
               [] t.q = "*" ->
                    \/ Matches(Tail(toks), line)
                    \/ line # <<>> /\ Fits(t, Head(line)) /\ Matches(toks, Tail(line))
               [] t.q = "+" ->
                    /\ line # <<>>
                    /\ Fits(t, Head(line))
                    /\ (Matches(Tail(toks), Tail(line)) \/ Matches(toks, Tail(line)))

\* grep -E "<pattern>" modman.toml >/dev/null 2>&1
GrepEntry_never(p, lines) == FALSE
GrepEntry(p, lines) == \E i \in 1..Len(lines) : Matches(EntryPattern(p), lines[i])

\* First recipe line: the usage check, then under set -e
\* BASE_MOD=$(awk '/^module /{print $2}' go.mod), which fails with awk's
\* status 2 when the workspace root has no readable go.mod, then MOD_DIR and
\* its checks, then mkdir -p.
CreateLine1(p, nondir, wsGoMod) ==
    IF p = <<>> THEN 2
    ELSE IF ~wsGoMod THEN 2
    ELSE IF p = <<"/">> THEN 4
    ELSE IF nondir THEN 3
    ELSE 0

\* mkdir -p "$MOD_DIR": the directory and the directories above it.
MkdirP(p, ds) == ds \cup Ancestors(Resolve(Root, p))

\* echo "Error: $MOD_DIR exists and is not a directory", MOD_DIR being MODULE,
\* for the paths of module-create that get to this test.
NotDirMessage(p) ==
    CASE p = <<"c", "a", "c", "h", "e", "/", "m", "e", "m">>
                              -> "Error: cache/mem exists and is not a directory"
      [] p = <<"a", "x", "b">> -> "Error: axb exists and is not a directory"
      [] p = <<"a", ".", "b">> -> "Error: a.b exists and is not a directory"
      [] p = <<"a", "+">>      -> "Error: a+ exists and is not a directory"

\* What the first recipe line prints last when it ends the command itself.
CreateLine1Message(p, nondir, wsGoMod) ==
    IF p = <<>> THEN "Example: make module-create MODULE=\"cache/mem\""
    ELSE IF ~wsGoMod THEN ""
    ELSE IF p = <<"/">> THEN "Error: MODULE is empty or invalid (\"/\"). Aborting."
    ELSE IF nondir THEN NotDirMessage(p)
    ELSE ""

\* Second recipe line, with MOD_DIR empty: [ ! -f "/go.mod" ] and, in the
\* workspace root, go mod init "/$(MODULE)" && go mod edit -go=1.25.
CreateLine2(fsRootGoMod, goInitOK) == IF fsRootGoMod \/ goInitOK THEN 0 ELSE 1

\* Third recipe line, with MOD_DIR empty: find "" finds nothing, so the
\* placeholder is written to "/.go".
CreateLine3(fsRootWritable) == IF fsRootWritable THEN 0 ELSE 1

\* Fourth recipe line: the entry is appended unless grep finds it.
CreateLine4(p, lines) == IF GrepEntry(p, lines) THEN lines ELSE lines \o EntryLines(p)

\* Fifth recipe line: the changelog tool's check, then changelog create.
CreateLine5(present, toolExit) == IF ~present THEN 1 ELSE toolExit

ChangelogMissingMessage == "changelog CLI not found. Run 'make install-tools' to install it."

\* changelog create -ni -r -t release -d "v1.0.0" "$(MODULE)"
ChangelogCreateArgs(p) == <<"create", "-ni", "-r", "-t", "release", "-d", "v1.0.0", p>>

\* The whole recipe: its status, how many recipe lines ran, modman.toml and
\* the directories afterwards, the tool invocation and the last message.
ModuleCreateRun(p, lines, ds, nondir, wsGoMod, fsRootGoMod, goInitOK, fsRootWritable, present, toolExit) ==
    IF CreateLine1(p, nondir, wsGoMod) # 0
    THEN [status |-> CreateLine1(p, nondir, wsGoMod), ran |-> 1, modman |-> lines, dirs |-> ds,
          invoked |-> <<>>, message |-> CreateLine1Message(p, nondir, wsGoMod)]
    ELSE IF CreateLine2(fsRootGoMod, goInitOK) # 0
    THEN [status |-> CreateLine2(fsRootGoMod, goInitOK), ran |-> 2, modman |-> lines,
          dirs |-> MkdirP(p, ds), invoked |-> <<>>, message |-> ""]
    ELSE IF CreateLine3(fsRootWritable) # 0
    THEN [status |-> CreateLine3(fsRootWritable), ran |-> 3, modman |-> lines,
          dirs |-> MkdirP(p, ds), invoked |-> <<>>, message |-> ""]
    ELSE [status  |-> CreateLine5(present, toolExit), ran |-> 5,
          modman  |-> CreateLine4(p, lines),
          dirs    |-> MkdirP(p, ds),
          invoked |-> IF present
                      THEN <<[tool |-> "changelog", args |-> ChangelogCreateArgs(p)]>>
                      ELSE <<>>,
          message |-> IF present THEN "" ELSE ChangelogMissingMessage]

----------------------------------------------------------------------------
(* The release tool wrappers: makerelative, updaterequires, calculaterelease, *)
(* tagrelease, generatechangelog, changelog.                                  *)

Wrappers ==
    {"makerelative", "updaterequires", "calculaterelease", "tagrelease",
     "generatechangelog", "changelog"}

\* The arguments after the tool's name.
WrapperArgs(tool, bump, dryRun) ==
    <<"--config", "modman.toml">> \o
    (CASE tool = "calculaterelease" /\ bump # ""  -> <<"--bump", bump>>
       [] tool = "tagrelease" /\ dryRun # ""      -> <<"--dry-run">>
       [] tool \in {"generatechangelog", "changelog"} -> <<"--output", "CHANGELOG.md">>
       [] OTHER -> <<>>)

NotFoundMessage(tool) ==
    CASE tool = "makerelative"      -> "makerelative tool not found. Run: make install-tools"
      [] tool = "updaterequires"    -> "updaterequires tool not found. Run: make install-tools"
      [] tool = "calculaterelease"  -> "calculaterelease tool not found. Run: make install-tools"
      [] tool = "tagrelease"        -> "tagrelease tool not found. Run: make install-tools"
      [] tool = "generatechangelog" -> "generatechangelog tool not found. Run: make install-tools"
      [] tool = "changelog"         -> "changelog tool not found. Install with: make install-tools"

\* set -e; command -v T >/dev/null 2>&1 || { echo "..."; exit 1; }; T --config modman.toml ...
WrapperRun_unguarded(tool, present, toolExit, bump, dryRun) ==
    [status  |-> IF present THEN toolExit ELSE 127,
     invoked |-> <<[tool |-> tool, args |-> WrapperArgs(tool, bump, dryRun)]>>,
     message |-> ""]
WrapperRun(tool, present, toolExit, bump, dryRun) ==
    IF ~present
    THEN [status |-> 1, invoked |-> <<>>, message |-> NotFoundMessage(tool)]
    ELSE [status  |-> toolExit,
          invoked |-> <<[tool |-> tool, args |-> WrapperArgs(tool, bump, dryRun)]>>,
          message |-> ""]

----------------------------------------------------------------------------
(* The release specification: module-create and wrapper invocations *)

CacheMem == <<"c", "a", "c", "h", "e", "/", "m", "e", "m">>

\* The values of MODULE that module-create is given.
ModulePaths ==
    { <<>>, <<"/">>, CacheMem, <<"a", "x", "b">>, <<"a", ".", "b">>, <<"a", "+">> }

\* The most module-create commands in one behaviour.
MaxCreates == 2

\* The exit statuses an external tool returns.
ToolExits == {0, 1, 2}

NoCommand ==
    [cmd |-> "none", module |-> <<>>, status |-> 0, hadEntry |-> FALSE, wasEmpty |-> TRUE, ran |-> 0,
     present |-> TRUE, toolExit |-> 0, stepsOK |-> TRUE, invoked |-> <<>>, message |-> ""]

RelInit ==
    /\ modman = <<>>
    /\ registered = {}
    /\ last = NoCommand
    /\ rops = 0
    /\ tree \in {{}, {RootGoMod}}
    /\ scannedTree = tree
    /\ MODULES = Discover(tree)
    /\ RunIdle /\ TglIdle

HasEntry(lines, p) == \E i \in 1..Len(lines) : lines[i] = Header(p)

\* make module-create MODULE=p, in a workspace whose root go.mod is there or
\* not; a path that is a directory already cannot be a regular file.
ModuleCreate ==
    /\ rops < MaxCreates
    /\ \E p \in ModulePaths, fsRootGoMod, fsRootWritable, present \in BOOLEAN :
       \E nondir \in (IF Resolve(Root, p) \in dirs THEN {FALSE} ELSE BOOLEAN),
          goInitOK \in (IF fsRootGoMod THEN {TRUE} ELSE BOOLEAN),
          toolExit \in (IF present THEN {0, 1} ELSE {0}) :
          LET wsGoMod == RootGoMod \in tree
              r == ModuleCreateRun(p, modman, dirs, nondir, wsGoMod, fsRootGoMod, goInitOK,
                                   fsRootWritable, present, toolExit)
          IN  /\ modman' = r.modman
              /\ dirs' = r.dirs
              /\ registered' = IF r.status = 0 THEN registered \cup {p} ELSE registered
              /\ last' = [cmd |-> "module-create", module |-> p, status |-> r.status,
                          hadEntry |-> HasEntry(modman, p), wasEmpty |-> (modman = <<>>),
                          ran |-> r.ran,
                          present |-> present, toolExit |-> toolExit,
                          stepsOK |-> (wsGoMod /\ ~nondir /\ (fsRootGoMod \/ goInitOK)
                                        /\ fsRootWritable),
                          invoked |-> r.invoked,
                          message |-> r.message]
    /\ rops' = rops + 1
    /\ UNCHANGED <<wsVars, tglVars>>
    /\ UNCHANGED <<variant, target, selector, failing, lintPresent, installOK, installs,
                   pc, idx, cwd, lastSt, attempts, covRouted, status, cleans>>

\* make <wrapper> [BUMP=...] [DRY_RUN=...]
Wrapper ==
    /\ \E tool \in Wrappers, present \in BOOLEAN :
       \E toolExit \in (IF present THEN ToolExits ELSE {0}),
          bump \in (IF tool = "calculaterelease" THEN {"", "minor"} ELSE {""}),
          dryRun \in (IF tool = "tagrelease" THEN {"", "1"} ELSE {""}) :
          LET r == WrapperRun(tool, present, toolExit, bump, dryRun)
          IN  last' = [cmd |-> tool, module |-> <<>>, status |-> r.status,
                       hadEntry |-> FALSE, wasEmpty |-> (modman = <<>>), ran |-> 1,
                       present |-> present,
                       toolExit |-> toolExit, stepsOK |-> TRUE,
                       invoked |-> r.invoked, message |-> r.message]
    /\ UNCHANGED <<modman, registered, rops>>
    /\ UNCHANGED <<wsVars, runVars, tglVars>>

RelNext == ModuleCreate \/ Wrapper

SpecRelease == RelInit /\ [][RelNext]_vars

----------------------------------------------------------------------------
(* Claims about module-create and the wrappers *)

EntryCount(p) == Cardinality({ i \in 1..Len(modman) : modman[i] = Header(p) })

\* C7: after any sequence of module-create runs, modman.toml holds exactly one
\* [modules."p"] entry for every registered path p and never two for one path.
C7_OneEntryPerRegisteredPath ==
    /\ \A p \in registered : EntryCount(p) = 1
    /\ \A p \in ModulePaths : EntryCount(p) <= 1

EverythingElseOK(c) == c.stepsOK /\ c.present /\ c.toolExit = 0

\* C8 (as claimed): registering cache/mem into an empty manifest succeeds, and
\* registering it again fails with a non-zero status.
C8_SecondRegistrationFails ==
    (last.cmd = "module-create" /\ last.module = CacheMem) =>
        /\ (last.wasEmpty /\ EverythingElseOK(last)) => last.status = 0
        /\ last.hadEntry => last.status # 0

\* C8 (amended): registering cache/mem into an empty manifest appends its entry
\* once the recipe gets to the manifest step; registering it again leaves
\* modman.toml as it is and is no error of its own: the command's status is
\* zero exactly when the recipe's other steps and the changelog tool succeed.
C8_ReRegisterSkipsUpdate ==
    [][ (rops' = rops + 1 /\ last'.module = CacheMem) =>
            /\ (modman = <<>> /\ last'.ran = 5) => modman' = EntryLines(CacheMem)
            /\ HasEntry(modman, CacheMem) =>
                   /\ modman' = modman
                   /\ (last'.status = 0 <=> EverythingElseOK(last')) ]_vars

\* C8 witness: a second module-create of cache/mem that ended with status zero.
C8_Witness ==
    /\ last.cmd = "module-create"
    /\ last.module = CacheMem
    /\ last.hadEntry
    /\ last.status = 0
    /\ EntryCount(CacheMem) = 1

\* C9: a wrapper whose tool is absent fails with the install instruction and
\* invokes nothing; one whose tool is present invokes it exactly once with
\* --config modman.toml and ends with status zero exactly when the tool does.
C9_WrapperSurfacesTool ==
    last.cmd \in Wrappers =>
        IF ~last.present
        THEN /\ last.status # 0
             /\ last.invoked = <<>>
             /\ last.message = NotFoundMessage(last.cmd)
        ELSE /\ Len(last.invoked) = 1
             /\ last.invoked[1].tool = last.cmd
             /\ SubSeq(last.invoked[1].args, 1, 2) = <<"--config", "modman.toml">>
             /\ (last.status = 0 <=> last.toolExit = 0)

\* C9 witness: a wrapper whose tool was present and failed, so the wrapper failed.
C9_Witness ==
    /\ last.cmd = "tagrelease"
    /\ last.present
    /\ last.toolExit # 0
    /\ last.status = last.toolExit
    /\ Len(last.invoked) = 1

====
